---- MODULE Spec2Model ----
(***************************************************************************)
(* A model of the rags argument parser (src/src/lib.rs): the consumption   *)
(* mask, the per-token run masks of short-code clusters, the match engine  *)
(* (find_match / matches_short / matches_long / handle_run), the scope     *)
(* tracker (walk_depth / commit_depth / max_depth / parse_done) and the    *)
(* binding operations (arg, flag, count, list, positional,                *)
(* positional_list, subcommand, group, done).                             *)
(*                                                                         *)
(* A token is a sequence of one-character strings.  Token positions and   *)
(* character offsets are 0-based as in the code: position idx is          *)
(* args[idx + 1] and offset i of a token t is t[i + 1].                   *)
(***************************************************************************)
EXTENDS Integers, Sequences, FiniteSets, TLC

VARIABLES args, mask, run_masks, walk_depth, commit_depth, max_depth,
          parse_done, curr_group, help, has_variadic, subcmds, last,
          scope, nested, twin

vars == <<args, mask, run_masks, walk_depth, commit_depth, max_depth,
          parse_done, curr_group, help, has_variadic, subcmds, last,
          scope, nested, twin>>

(***************************************************************************)
(* Bounds of the model.                                                    *)
(***************************************************************************)
\* number of tokens that follow the program name
MaxArgs == 2
\* number of tokens that follow the program name in the inputs of SpecPos
MaxPosArgs == 3
\* number of tokens that follow the program name in the inputs of SpecRun
MaxRunArgs == 3
\* cap on walk_depth (subcommand nesting the declaration sequence opens)
MaxDepth == 2

(***************************************************************************)
(* Characters, names and tokens.                                           *)
(***************************************************************************)
\* the '\0' short code of long_arg / long_flag / long_count / long_list
NUL == "\\0"

L_file == <<"f", "i", "l", "e">>
L_verbose == <<"v", "e", "r", "b", "o", "s", "e">>
L_help == <<"h", "e", "l", "p">>
L_none == <<>>

T_prog == <<"p">>
T_stop == <<"-", "-">>
T_run == <<"r", "u", "n">>
T_go == <<"g", "o">>

\* the declarations the caller may make: (short code, long name)
Opts ==
  { [short |-> "v", long |-> L_verbose],
    [short |-> "x", long |-> L_none],
    [short |-> "f", long |-> L_file] }

\* the implicit help flag of from_strings
HelpOpt == [short |-> "h", long |-> L_help]

\* the names a subcommand may be declared with (the last is the empty name)
SubNames == { T_run, T_go, <<>> }

\* the steps a counter may be declared with
Steps == { 1, 3 }

\* the tokens an input of long-name tokens is drawn from: the exact and the
\* equals form of a long name, tokens that only begin with one, and a cluster
LongVocabulary ==
  { <<"-", "-">> \o L_file, <<"-", "-">> \o L_file \o <<"=", "a">>,
    <<"-", "-">> \o L_file \o <<"x">>, <<"-", "-">> \o L_verbose \o <<"s">>,
    <<"-", "v", "x">>, <<"a">> }

\* the tokens an input of the loops of count and list is drawn from
LoopVocabulary ==
  { <<"-", "v">>, <<"-", "x", "v", "v">>, <<"-", "f", "=", "a">>, <<"-", "f">>,
    <<"-", "v", "f">>, <<"a">> }

\* the tokens an input of the whole parser (Spec) is drawn from
Vocabulary ==
  { <<"-", "v">>, <<"-", "v", "f">>, <<"-", "h">>, <<"a">>, T_run, T_stop }

\* the tokens of the inputs the counters are checked on (SpecCount)
CountVocabulary ==
  { <<"-", "v">>, <<"-", "-">> \o L_verbose, <<"-", "v", "=", "a">>,
    <<"-", "v", "x">>, <<"-", "x", "v", "v">>, <<"-", "v", "h">>, <<"a">> }

\* the tokens of the inputs the value-taking options are checked on (SpecValue)
ValueVocabulary ==
  { <<"-", "f">>, <<"-", "-">> \o L_file,
    <<"-", "f", "=", "a">>, <<"-", "-">> \o L_file \o <<"=", "b">>,
    <<"-", "v", "f">>, <<"-", "f", "v">>,
    <<"a">>, <<"-", "h">>, T_stop }

\* the tokens of the inputs the positionals are checked on (SpecPos)
PosVocabulary == { <<"a">>, <<"b">>, <<"-", "v">>, T_stop }

\* the tokens of the inputs the report of unused tokens is checked on
UnusedVocabulary ==
  { <<"-", "v">>, <<"-", "-">> \o L_verbose, <<"-", "v", "x">>, <<"-", "x", "v">>,
    <<"a">>, T_stop }

\* the tokens of the inputs a parser and its twin in help mode are compared on
HelpVocabulary == { T_run, T_go, <<"-", "f">>, <<"a">> }

\* the tokens of the inputs the scopes are checked on (SpecScope)
ScopeVocabulary == { T_run, T_go, <<"-", "v">> }

\* the tokens of the inputs the valued short codes in runs are checked on (SpecRun)
RunVocabulary ==
  { <<"-", "v", "f">>, <<"-", "f", "v">>, <<"-", "x", "x">>, <<"-", "f", "=", "a">>, <<"a">> }

RECURSIVE SeqsUpTo(_, _)
SeqsUpTo(S, n) ==
  IF n = 0 THEN { <<>> }
  ELSE LET shorter == SeqsUpTo(S, n - 1)
       IN  shorter \cup { Append(s, t) : s \in { q \in shorter : Len(q) = n - 1 }, t \in S }

\* the program name followed by at most n tokens of V
InputsOf(V, n) == { <<T_prog>> \o s : s \in SeqsUpTo(V, n) }

(***************************************************************************)
(* Helpers on tokens and sets of positions.                                *)
(***************************************************************************)
Min(S) == CHOOSE m \in S : \A n \in S : m <= n

\* F applied to the value of v, which is computed once
With(v, F(_)) == CHOOSE r \in { F(x) : x \in {v} } : TRUE

\* the character at 0-based offset i, '\0' when the token is too short
CharAt(t, i) == IF i + 1 <= Len(t) THEN t[i + 1] ELSE NUL

\* &t[from..], 0-based
Suffix(t, from) == SubSeq(t, from + 1, Len(t))

\* str::ends_with(char)
EndsWith(t, c) == Len(t) > 0 /\ t[Len(t)] = c

\* the ascending contents of a bit set
RECURSIVE Ascending(_)
Ascending(S) == IF S = {} THEN <<>> ELSE <<Min(S)>> \o Ascending(S \ {Min(S)})

\* the position of the first "--", or -1 when there is none
ArgStop(a) ==
  LET stops == { i \in 0..(Len(a) - 1) : a[i + 1] = T_stop }
  IN  IF stops = {} THEN -1 ELSE Min(stops)

\* a conversion that loses the text
FromStr_empty(t) == <<>>

\* T::from_str for a String target: the text itself
FromStr(t) == t

\* mask.remove that removes nothing
claim_kept(m, idx) == m

\* claim as a toggle of the bit: a position that is not in the mask enters it
claim_toggle(m, idx) == IF idx \in m THEN m \ {idx} ELSE m \cup {idx}

\* BitSet::remove: the position leaves the mask
claim(m, idx) == m \ {idx}

\* the mask without the argstop: every position after the program name
InitialMask_no_argstop(a) == 1..(Len(a) - 1)

\* the mask with the program name in it
InitialMask_with_zero(a) ==
  LET count == IF ArgStop(a) = -1 THEN Len(a) ELSE ArgStop(a)
  IN  0..(count - 1)

\* the mask from_strings builds: every position from 1 up to the argstop
InitialMask(a) ==
  LET count == IF ArgStop(a) = -1 THEN Len(a) ELSE ArgStop(a)
  IN  1..(count - 1)

\* the highest position of a bit set
last_of(view) == CHOOSE m \in view : \A n \in view : m >= n

\* the lowest position of a bit set (BitSet::iter is ascending)
first_of(view) == Min(view)

\* handle_run's refusal of a value-taking short code that does not end the token
valued_in_run(arg, short, expect_value) == expect_value /\ ~EndsWith(arg, short)

\* the text from the '=' on
equal_value_with_eq(arg, off) == Suffix(arg, off)

\* the text after the '=' found at offset off
equal_value(arg, off) == Suffix(arg, off + 1)

\* count adding one for a match, whatever the step
add_assign_one(acc, run_count, step) ==
  acc + (IF run_count = 0 THEN 1 ELSE run_count)

\* count adding the step once for a run, however many characters it claimed
add_assign_once(acc, run_count, step) == acc + step

\* what count adds for one match: the step once, or once per character of a run
add_assign(acc, run_count, step) ==
  acc + (IF run_count = 0 THEN step ELSE run_count * step)

(***************************************************************************)
(* The match engine.  A parser state st is [mask, runs]; a match result    *)
(* carries the state the lookup leaves behind.                             *)
(***************************************************************************)
NoMatch(st) ==
  [tag |-> "None", err |-> "", index |-> -1, run_count |-> 0,
   value |-> "Unknown", off |-> 0, mask |-> st.mask, runs |-> st.runs]

MatchErr(st, e) ==
  [tag |-> "Err", err |-> e, index |-> -1, run_count |-> 0,
   value |-> "Unknown", off |-> 0, mask |-> st.mask, runs |-> st.runs]

FoundMatch(st, idx, rc, loc, off) ==
  [tag |-> "Some", err |-> "", index |-> idx, run_count |-> rc,
   value |-> loc, off |-> off, mask |-> st.mask, runs |-> st.runs]

StateOf(m) == [mask |-> m.mask, runs |-> m.runs]

\* a fresh run mask that does not skip the leading dash
new_run_mask_with_dash(arg) == 0..(Len(arg) - 1)

\* the run mask of a token met for the first time: every offset past the dash
new_run_mask(arg) == 1..(Len(arg) - 1)

handle_run(a, st, idx, short, expect_value) ==
  LET arg == a[idx + 1]
      matches == { i \in 0..(Len(arg) - 1) : arg[i + 1] = short }
      runs1 == IF idx \in DOMAIN st.runs
               THEN st.runs
               ELSE st.runs @@ (idx :> new_run_mask(arg))
      st1 == [mask |-> st.mask, runs |-> runs1]
      runmask == runs1[idx]
      hit == matches \cap runmask
      left == runmask \ hit
      st2 == [mask |-> IF left = {} THEN claim(st.mask, idx) ELSE st.mask,
              runs |-> [runs1 EXCEPT ![idx] = left]]
  IN  IF valued_in_run(arg, short, expect_value) THEN MatchErr(st, "ValuedArgInRun")
      ELSE IF matches = {} THEN NoMatch(st)
      ELSE IF runmask = {} THEN NoMatch(st1)
      ELSE IF hit = {} THEN NoMatch(st1)
      ELSE FoundMatch(st2, idx, Cardinality(hit),
                      IF expect_value THEN "TakesNext" ELSE "Unknown", 0)

matches_short(a, st, idx, short, expect_value) ==
  LET arg == a[idx + 1]
      arg_0 == CharAt(arg, 0)
      arg_1 == CharAt(arg, 1)
      arg_2 == CharAt(arg, 2)
      has_next == (idx + 1) \in st.mask
  IN  IF short = NUL THEN NoMatch(st)
      ELSE IF Len(arg) < 2 THEN NoMatch(st)
      ELSE IF idx \in DOMAIN st.runs THEN handle_run(a, st, idx, short, expect_value)
      ELSE IF arg_0 # "-" THEN NoMatch(st)
      ELSE IF arg_1 = "-" THEN NoMatch(st)
      ELSE IF arg_1 # short
           THEN IF Len(arg) > 2 /\ arg_1 # "-" /\ arg_2 # "="
                THEN handle_run(a, st, idx, short, expect_value)
                ELSE NoMatch(st)
      ELSE IF Len(arg) = 2
           THEN IF expect_value /\ has_next
                THEN FoundMatch(st, idx, 0, "TakesNext", 0)
                ELSE FoundMatch(st, idx, 0, "Unknown", 0)
      ELSE IF arg_2 = "=" THEN FoundMatch(st, idx, 0, "HasEqual", 2)
      ELSE handle_run(a, st, idx, short, expect_value)

\* matches_long without the test for a trailing '=' (661-667)
matches_long_no_equals(a, st, idx, long, expect_value) ==
  LET arg == a[idx + 1]
      has_next == (idx + 1) \in st.mask
  IN  IF long # <<>> /\ arg = <<"-", "-">> \o long
      THEN FoundMatch(st, idx, 0,
                      IF expect_value /\ has_next THEN "TakesNext" ELSE "Unknown", 0)
      ELSE NoMatch(st)

\* matches_long that never matches
matches_long_never(a, st, idx, long, expect_value) == NoMatch(st)

matches_long(a, st, idx, long, expect_value) ==
  LET arg == a[idx + 1]
      end_of_arg == 2 + Len(long)
      has_next == (idx + 1) \in st.mask
  IN  IF long = <<>> THEN NoMatch(st)
      ELSE IF Len(arg) < end_of_arg THEN NoMatch(st)
      ELSE IF SubSeq(arg, 1, 2) # <<"-", "-">> THEN NoMatch(st)
      ELSE IF SubSeq(arg, 3, end_of_arg) # long THEN NoMatch(st)
      ELSE IF Len(arg) = end_of_arg
           THEN FoundMatch(st, idx, 0,
                           IF expect_value /\ has_next THEN "TakesNext" ELSE "Unknown", 0)
      ELSE IF CharAt(arg, end_of_arg) = "="
           THEN FoundMatch(st, idx, 0, "HasEqual", end_of_arg)
      ELSE NoMatch(st)

\* the sweep of find_match over mask_view, the mask as it was when the call began
RECURSIVE sweep(_, _, _, _, _, _)
sweep(a, st, view, short, long, expect_value) ==
  IF view = {} THEN NoMatch(st)
  ELSE With(first_of(view), LAMBDA i :
       With(matches_short(a, st, i, short, expect_value), LAMBDA s :
         IF s.tag # "None" THEN s
         ELSE With(matches_long(a, StateOf(s), i, long, expect_value), LAMBDA l :
                IF l.tag # "None" THEN l
                ELSE With(view \ {i}, LAMBDA rest :
                       sweep(a, StateOf(l), rest, short, long, expect_value)))))

find_match(a, st, short, long, expect_value) ==
  sweep(a, st, st.mask, short, long, expect_value)

\* a subcommand match that leaves its token in the mask
mask_after_subcommand_kept(m, idx) == m

\* self.mask.remove(info.index) of subcommand
mask_after_subcommand(m, idx) == claim(m, idx)

find_subcommand(a, st, name) ==
  LET hits == { i \in st.mask : a[i + 1] = name }
  IN  IF hits = {} THEN NoMatch(st) ELSE FoundMatch(st, first_of(hits), 0, "Unknown", 0)

(***************************************************************************)
(* The binding operations.  Each body maps the parser state st and the     *)
(* caller's target tb to an outcome: the result of the call, the state it  *)
(* leaves, the target afterwards (ta), the positions it matched (hits) and *)
(* the positions it read a value from (vals, -1 for a value after '=').    *)
(***************************************************************************)
\* the value a caller seeds its target with
Default == <<"*">>

Outcome(res, err, st, ta, hits, vals) ==
  [res |-> res, err |-> err, mask |-> st.mask, runs |-> st.runs,
   ta |-> ta, hits |-> hits, vals |-> vals]

construct_arg(a, st, info, tb) ==
  LET next == info.index + 1
  IN  CASE info.value = "Unknown" ->
             Outcome("Err", "MissingArgValue", st, tb, <<info.index>>, <<>>)
        [] info.value = "TakesNext" ->
             IF next \notin st.mask
             THEN Outcome("Err", "MissingArgValue", st, tb, <<info.index>>, <<>>)
             ELSE Outcome("Ok", "", [st EXCEPT !.mask = claim(@, next)],
                          FromStr(a[next + 1]), <<info.index>>, <<next>>)
        [] info.value = "HasEqual" ->
             Outcome("Ok", "", st, FromStr(equal_value(a[info.index + 1], info.off)),
                     <<info.index>>, <<-1>>)

arg_body(a, st, o, tb, required) ==
  With(find_match(a, st, o.short, o.long, TRUE), LAMBDA f :
    LET claimed == [mask |-> claim(f.mask, f.index), runs |-> f.runs]
    IN  IF f.tag = "Err" THEN Outcome("Err", f.err, StateOf(f), tb, <<>>, <<>>)
        ELSE IF f.tag = "None"
             THEN IF required
                  THEN Outcome("Err", "MissingArgument", StateOf(f), tb, <<>>, <<>>)
                  ELSE Outcome("Ok", "", StateOf(f), tb, <<>>, <<>>)
        ELSE construct_arg(a, claimed, f, tb))

flag_body(a, st, o, tb, invert) ==
  With(find_match(a, st, o.short, o.long, FALSE), LAMBDA f :
    LET claimed == [mask |-> claim(f.mask, f.index), runs |-> f.runs]
    IN  IF f.tag = "Err" THEN Outcome("Err", f.err, StateOf(f), tb, <<>>, <<>>)
        ELSE IF f.tag = "None" THEN Outcome("Ok", "", StateOf(f), tb, <<>>, <<>>)
        ELSE IF f.value = "Unknown"
             THEN Outcome("Ok", "", claimed, ~invert, <<f.index>>, <<>>)
        ELSE Outcome("Err", "InvalidInput", claimed, tb, <<f.index>>, <<>>))

\* one pass of the loop of count (920-947): acc is the target so far, hits the
\* matches so far; the result is "Loop" when the pass ends at the loop's head
count_step(a, st, o, acc, step, hits) ==
  With(find_match(a, st, o.short, o.long, FALSE), LAMBDA f :
    LET claimed == [mask |-> IF f.run_count = 0 THEN claim(f.mask, f.index) ELSE f.mask,
                    runs |-> f.runs]
    IN  IF f.tag = "Err" THEN Outcome("Err", f.err, StateOf(f), acc, hits, <<>>)
        ELSE IF f.tag = "None" THEN Outcome("Ok", "", StateOf(f), acc, hits, <<>>)
        ELSE IF f.value = "Unknown"
             THEN Outcome("Loop", "", claimed, add_assign(acc, f.run_count, step),
                          Append(hits, f.index), <<>>)
        ELSE Outcome("Err", "InvalidInput", claimed, acc, Append(hits, f.index), <<>>))

\* the loop of count
RECURSIVE count_loop(_, _, _, _, _, _)
count_loop(a, st, o, acc, step, hits) ==
  With(count_step(a, st, o, acc, step, hits), LAMBDA r :
    IF r.res = "Loop" THEN count_loop(a, StateOf(r), o, r.ta, step, r.hits) ELSE r)

count_body(a, st, o, tb, step) == count_loop(a, st, o, tb, step, <<>>)

\* one pass of the loop of list (998-1031): acc is the target vector so far
list_step(a, st, o, acc, required, hits, vals) ==
  With(find_match(a, st, o.short, o.long, TRUE), LAMBDA f :
    LET claimed == [mask |-> claim(f.mask, f.index), runs |-> f.runs]
        next == f.index + 1
        taken == [claimed EXCEPT !.mask = claim(@, next)]
    IN  IF f.tag = "Err" THEN Outcome("Err", f.err, StateOf(f), acc, hits, vals)
        ELSE IF f.tag = "None"
             THEN IF required /\ Len(hits) = 0
                  THEN Outcome("Err", "MissingArgument", StateOf(f), acc, hits, vals)
                  ELSE Outcome("Ok", "", StateOf(f), acc, hits, vals)
        ELSE CASE f.value = "Unknown" ->
                    Outcome("Err", "MissingArgValue", claimed, acc, Append(hits, f.index), vals)
               [] f.value = "TakesNext" ->
                    IF next >= Len(a)
                    THEN \* &self.args[found.index + 1] is out of bounds
                         Outcome("Panic", "IndexOutOfBounds", taken, acc,
                                 Append(hits, f.index), vals)
                    ELSE Outcome("Loop", "", taken, Append(acc, FromStr(a[next + 1])),
                                 Append(hits, f.index), Append(vals, next))
               [] f.value = "HasEqual" ->
                    Outcome("Loop", "", claimed,
                            Append(acc, FromStr(equal_value(a[f.index + 1], f.off))),
                            Append(hits, f.index), Append(vals, -1)))

\* the loop of list
RECURSIVE list_loop(_, _, _, _, _, _, _)
list_loop(a, st, o, acc, required, hits, vals) ==
  With(list_step(a, st, o, acc, required, hits, vals), LAMBDA r :
    IF r.res = "Loop" THEN list_loop(a, StateOf(r), o, r.ta, required, r.hits, r.vals)
    ELSE r)

list_body(a, st, o, tb, required) == list_loop(a, st, o, tb, required, <<>>, <<>>)

positional_body(a, st, tb, required) ==
  IF st.mask = {}
  THEN IF required
       THEN Outcome("Err", "MissingPositional", st, tb, <<>>, <<>>)
       ELSE Outcome("Ok", "", st, tb, <<>>, <<>>)
  ELSE LET idx == first_of(st.mask)
       IN  Outcome("Ok", "", [st EXCEPT !.mask = claim(@, idx)], FromStr(a[idx + 1]),
                   <<idx>>, <<idx>>)

\* the argstop token and the tokens after it
AfterStop_with_stop(a) ==
  IF ArgStop(a) = -1 THEN <<>> ELSE SubSeq(a, ArgStop(a) + 1, Len(a))

\* the tokens after the argstop, in order
AfterStop(a) ==
  IF ArgStop(a) = -1 THEN <<>> ELSE SubSeq(a, ArgStop(a) + 2, Len(a))

positional_list_body(a, st, tb, required) ==
  LET found == Ascending(st.mask)
      tail == AfterStop(a)
      into == tb \o [k \in 1..Len(found) |-> FromStr(a[found[k] + 1])]
                 \o [k \in 1..Len(tail) |-> FromStr(tail[k])]
      emptied == [st EXCEPT !.mask = {}]
      stop == ArgStop(a)
      read == found \o [k \in 1..Len(tail) |-> stop + k]
  IN  IF required /\ Len(found) + Len(tail) = 0
      THEN Outcome("Err", "MissingPositional", emptied, into, found, read)
      ELSE Outcome("Ok", "", emptied, into, found, read)

\* Unused::new: the token and what its first two characters look like
Unused_new(value, at) ==
  [arg |-> value, at |-> at,
   looks_like |-> IF CharAt(value, 0) = "-" /\ CharAt(value, 1) = "-" THEN "LongArg"
                  ELSE IF CharAt(value, 0) = "-" /\ CharAt(value, 1) # "-" THEN "ShortArg"
                  ELSE "Positional"]

\* the entries unused() pushes for position i (at is the position, for the
\* properties; the code's entry has arg and looks_like only)
unused_at(a, runs, i) ==
  IF i \in DOMAIN runs
  THEN LET open == Ascending(runs[i])
       IN  [k \in 1..Len(open) |->
              [arg |-> <<"-", CharAt(a[i + 1], open[k] + 1)>>, at |-> i,
               looks_like |-> "ShortArg"]]
  ELSE << Unused_new(a[i + 1], i) >>

\* chars().nth(m + 1).unwrap() on an open offset m that is the last of its token
unused_unwraps_none(a, st) ==
  \E i \in st.mask \cap DOMAIN st.runs : \E m \in st.runs[i] : m + 1 >= Len(a[i + 1])

RECURSIVE unused_loop(_, _, _)
unused_loop(a, st, view) ==
  IF view = <<>> THEN <<>>
  ELSE unused_at(a, st.runs, Head(view)) \o unused_loop(a, st, Tail(view))

unused_body(a, st) ==
  IF unused_unwraps_none(a, st)
  THEN Outcome("Panic", "UnwrapNone", st, <<>>, <<>>, <<>>)
  ELSE Outcome("Ok", "", st, unused_loop(a, st, Ascending(st.mask)), <<>>, <<>>)

(***************************************************************************)
(* The scope tracker.                                                      *)
(***************************************************************************)
\* a scope test that ignores nothing
should_ignore_never(is_subcmd, walk) == FALSE

\* should_ignore without its parse_done test (494-496)
should_ignore_by_depth(is_subcmd, walk) ==
  IF is_subcmd THEN walk # commit_depth + 1
  ELSE walk # max_depth

should_ignore(is_subcmd, walk) ==
  IF parse_done THEN TRUE
  ELSE IF is_subcmd THEN walk # commit_depth + 1
  ELSE walk # max_depth

is_help_flags(o) == o.short = "h" \/ o.long = L_help

\* commit_next_level keeping the old max_depth (507)
Max_keeps_second(x, y) == y

Max(x, y) == IF x >= y THEN x ELSE y

(***************************************************************************)
(* The parser as a state machine: one action per public method.  last      *)
(* records the call just made: its parameters, the mode it ran in          *)
(* ("ignored": should_ignore, "help": schema only, "bind": binding), the   *)
(* mask and run masks before it, and its outcome.                          *)
(***************************************************************************)
Here == [mask |-> mask, runs |-> run_masks]

Skip(tb) == Outcome("Ok", "", Here, tb, <<>>, <<>>)

Refuse(e, tb) == Outcome("Err", e, Here, tb, <<>>, <<>>)

Call(op, o, name, flagv, step, mode, tb, out) ==
  [op |-> op, short |-> o.short, long |-> o.long, name |-> name, flagv |-> flagv,
   step |-> step, mode |-> mode, res |-> out.res, err |-> out.err,
   pmask |-> mask, pruns |-> run_masks, tb |-> tb, ta |-> out.ta,
   hits |-> out.hits, vals |-> out.vals]

NoOpt == [short |-> NUL, long |-> L_none]

\* a panic unwinds through the caller: the parser is not used again
Running == last.res # "Panic"

\* the mode of a call that does not test wants_help
Mode_binds_in_help == IF should_ignore(FALSE, walk_depth) THEN "ignored" ELSE "bind"

Mode == IF should_ignore(FALSE, walk_depth) THEN "ignored"
        ELSE IF help THEN "help" ELSE "bind"

Bind(out) ==
  /\ mask' = out.mask
  /\ run_masks' = out.runs
  /\ UNCHANGED <<args, walk_depth, commit_depth, max_depth, parse_done,
                 curr_group, help, subcmds, scope, nested, twin>>

from_strings(inputs) ==
  /\ args \in inputs
  /\ \E bits \in { [mask |-> InitialMask(args), runs |-> <<>>] } :
     \E out \in { flag_body(args, bits, HelpOpt, FALSE, FALSE) } :
         /\ mask = out.mask
         /\ run_masks = out.runs
         /\ help = out.ta
         /\ last = [op |-> "from_strings", short |-> HelpOpt.short, long |-> HelpOpt.long,
                    name |-> <<>>, flagv |-> FALSE, step |-> 0, mode |-> "bind",
                    res |-> IF out.res = "Ok" THEN "Ok" ELSE "Panic", err |-> out.err,
                    pmask |-> bits.mask, pruns |-> bits.runs, tb |-> FALSE,
                    ta |-> out.ta, hits |-> out.hits, vals |-> out.vals]
  /\ walk_depth = 0
  /\ commit_depth = 0
  /\ max_depth = 0
  /\ parse_done = FALSE
  /\ curr_group = "None"
  /\ has_variadic = FALSE
  /\ subcmds = <<>>
  /\ scope = <<>>

\* The declarations the caller has open, outermost first: the subcommand and
\* group calls whose own done() the caller has not yet written.  nested says
\* that the declaration sequence is followed and has been well nested so far:
\* no done() without an open declaration, no group in a group, no empty
\* subcommand name.  Only SpecScope follows the declarations.
InGroup == scope # <<>> /\ scope[Len(scope)].kind = "group"

Declare(kind, name, hit) ==
  IF nested /\ kind # "misuse"
  THEN /\ scope' = Append(scope, [kind |-> kind, name |-> name, hit |-> hit])
       /\ nested' = TRUE
  ELSE /\ scope' = <<>>
       /\ nested' = FALSE

Close ==
  IF nested /\ scope # <<>>
  THEN /\ scope' = SubSeq(scope, 1, Len(scope) - 1)
       /\ nested' = TRUE
  ELSE /\ scope' = <<>>
       /\ nested' = FALSE

\* The twin: a second parser, built from the same tokens with the help flag
\* added at the end, that is given the same declarations.  It is in help
\* mode, where arg, count, list, positional, positional_list and every flag
\* but the help flag return before they match (768-777, 846-848, 912-918,
\* 989-995, 1177-1184, 1235-1240), so only subcommand and done change the
\* fields kept here.  Only SpecHelp follows the twin; elsewhere it is off.
TwinOff ==
  [on |-> FALSE, args |-> <<>>, mask |-> {}, walk_depth |-> 0, commit_depth |-> 0,
   max_depth |-> 0, parse_done |-> FALSE, subcmds |-> <<>>]

twin_from_strings(a) ==
  LET input == Append(a, <<"-", HelpOpt.short>>)
      bits == [mask |-> InitialMask(input), runs |-> <<>>]
      out == flag_body(input, bits, HelpOpt, FALSE, FALSE)
  IN  [on |-> out.res = "Ok" /\ out.ta, args |-> input, mask |-> out.mask,
       walk_depth |-> 0, commit_depth |-> 0, max_depth |-> 0,
       parse_done |-> FALSE, subcmds |-> <<>>]

twin_subcommand(t, name) ==
  LET walk == t.walk_depth + 1
      ignored == t.parse_done \/ walk # t.commit_depth + 1
      info == find_subcommand(t.args, [mask |-> t.mask, runs |-> <<>>], name)
  IN  IF ~t.on THEN t
      ELSE IF ignored \/ name = <<>> \/ info.tag # "Some"
           THEN [t EXCEPT !.walk_depth = walk]
      ELSE [t EXCEPT !.walk_depth = walk,
                     !.mask = mask_after_subcommand(@, info.index),
                     !.subcmds = Append(@, FromStr(t.args[info.index + 1])),
                     !.commit_depth = @ + 1,
                     !.max_depth = Max(t.commit_depth + 1, @)]

twin_done(t) ==
  IF ~t.on \/ t.walk_depth = 0 THEN t
  ELSE [t EXCEPT !.parse_done = IF t.walk_depth = t.commit_depth
                                    /\ t.commit_depth = t.max_depth
                                 THEN TRUE ELSE @,
                 !.walk_depth = @ - 1]

arg(o, required) ==
  /\ Running
  /\ \E out \in { IF Mode = "bind" THEN arg_body(args, Here, o, Default, required)
                   ELSE Skip(Default) } :
         /\ Bind(out)
         /\ last' = Call("arg", o, <<>>, required, 0, Mode, Default, out)
  /\ UNCHANGED has_variadic

flag(o, invert) ==
  /\ Running
  /\ \E mode \in { IF Mode = "help" /\ is_help_flags(o) THEN "bind" ELSE Mode } :
     \E out \in { IF mode = "bind" THEN flag_body(args, Here, o, invert, invert)
                   ELSE Skip(invert) } :
         /\ Bind(out)
         /\ last' = Call("flag", o, <<>>, invert, 0, mode, invert, out)
  /\ UNCHANGED has_variadic

count(o, step) ==
  /\ Running
  /\ \E out \in { IF Mode = "bind" THEN count_body(args, Here, o, 0, step)
                   ELSE Skip(0) } :
         /\ Bind(out)
         /\ last' = Call("count", o, <<>>, FALSE, step, Mode, 0, out)
  /\ UNCHANGED has_variadic

list(o, required) ==
  /\ Running
  /\ \E out \in { IF Mode = "bind" THEN list_body(args, Here, o, <<Default>>, required)
                   ELSE Skip(<<Default>>) } :
         /\ Bind(out)
         /\ last' = Call("list", o, <<>>, required, 0, Mode, <<Default>>, out)
  /\ UNCHANGED has_variadic

positional(required) ==
  /\ Running
  /\ \E mode \in { IF Mode # "ignored" /\ has_variadic THEN "refused" ELSE Mode } :
     \E out \in { IF mode = "bind" THEN positional_body(args, Here, Default, required)
                   ELSE IF mode = "refused" THEN Refuse("UnorderedPositionals", Default)
                   ELSE Skip(Default) } :
         /\ Bind(out)
         /\ last' = Call("positional", NoOpt, <<>>, required, 0, mode, Default, out)
  /\ UNCHANGED has_variadic

\* positional_list without self.has_variadic = true (1231)
variadic_after_unset(mode) == has_variadic

\* has_variadic after a positional_list call in the given mode
variadic_after(mode) == has_variadic \/ mode \in {"help", "bind"}

positional_list(required) ==
  /\ Running
  /\ \E mode \in { IF Mode # "ignored" /\ has_variadic THEN "refused" ELSE Mode } :
     \E out \in { IF mode = "bind"
                   THEN positional_list_body(args, Here, <<Default>>, required)
                   ELSE IF mode = "refused" THEN Refuse("MultipleVariadic", <<Default>>)
                   ELSE Skip(<<Default>>) } :
         /\ Bind(out)
         /\ has_variadic' = variadic_after(mode)
         /\ last' = Call("positional_list", NoOpt, <<>>, required, 0, mode,
                         <<Default>>, out)

subcommand(name) ==
  /\ Running
  /\ walk_depth < MaxDepth
  /\ Len(scope) < MaxDepth
  /\ LET walk == walk_depth + 1
         ignored == should_ignore(TRUE, walk)
         info == find_subcommand(args, Here, name)
         hit == ~ignored /\ name # <<>> /\ info.tag = "Some"
         out == IF ignored THEN Skip(subcmds)
                ELSE IF name = <<>> THEN Refuse("InvalidState", subcmds)
                ELSE IF hit
                     THEN Outcome("Ok", "", [Here EXCEPT !.mask = mask_after_subcommand(@, info.index)],
                                  Append(subcmds, FromStr(args[info.index + 1])),
                                  <<info.index>>, <<>>)
                ELSE Skip(subcmds)
     IN  /\ walk_depth' = walk
         /\ mask' = out.mask
         /\ run_masks' = out.runs
         /\ subcmds' = out.ta
         /\ commit_depth' = IF hit THEN commit_depth + 1 ELSE commit_depth
         /\ max_depth' = IF hit THEN Max(commit_depth + 1, max_depth) ELSE max_depth
         /\ last' = Call("subcommand", NoOpt, name, FALSE, 0,
                         IF ignored THEN "ignored" ELSE IF help THEN "help" ELSE "bind",
                         subcmds, out)
         /\ Declare(IF name = <<>> THEN "misuse" ELSE "sub", name, hit)
         /\ twin' = twin_subcommand(twin, name)
  /\ UNCHANGED <<args, parse_done, curr_group, help, has_variadic>>

group(name) ==
  /\ Running
  /\ Len(scope) < MaxDepth
  /\ LET mode == IF curr_group # "None" THEN "refused" ELSE Mode
         out == IF mode = "refused" THEN Refuse("NestedGroup", curr_group)
                ELSE Skip(curr_group)
     IN  /\ curr_group' = IF mode \in {"help", "bind"} THEN name ELSE curr_group
         /\ last' = Call("group", NoOpt, <<>>, FALSE, 0, mode, curr_group, out)
         /\ Declare(IF InGroup THEN "misuse" ELSE "group", <<>>, FALSE)
  /\ UNCHANGED <<args, mask, run_masks, walk_depth, commit_depth, max_depth,
                 parse_done, help, has_variadic, subcmds, twin>>

\* done with its top-level test (482-484) left out
at_top_level_unchecked == FALSE

\* done() outside every group and every subcommand
at_top_level == curr_group = "None" /\ walk_depth = 0

\* a done() that never ends the parse
closes_committed_never == FALSE

\* the test of done() for the end of the committed path (486)
closes_committed == walk_depth = commit_depth /\ commit_depth = max_depth

done ==
  /\ Running
  /\ LET closes_group == curr_group # "None"
         top == at_top_level
         out == IF top THEN Refuse("InvalidState", walk_depth) ELSE Skip(walk_depth)
     IN  /\ curr_group' = "None"
         /\ walk_depth' = IF closes_group \/ top THEN walk_depth ELSE walk_depth - 1
         /\ parse_done' = IF ~closes_group /\ ~top /\ closes_committed
                          THEN TRUE ELSE parse_done
         /\ last' = Call("done", NoOpt, <<>>, FALSE, 0,
                         IF closes_group THEN "group" ELSE IF top THEN "refused" ELSE "bind",
                         walk_depth, out)
         /\ Close
         /\ twin' = twin_done(twin)
  /\ UNCHANGED <<args, mask, run_masks, commit_depth, max_depth, help,
                 has_variadic, subcmds>>

unused ==
  /\ Running
  /\ \E out \in { unused_body(args, Here) } :
         /\ Bind(out)
         /\ last' = Call("unused", NoOpt, <<>>, FALSE, 0, "bind", <<>>, out)
  /\ UNCHANGED has_variadic

\* count and list taken one pass of their loop at a time: count_enter and
\* list_enter are the calls up to the head of the loop, count_pass and
\* list_pass one pass of the loop; last.res is "Loop" while the call is inside
InLoop == last.res = "Loop"

Enter(tb) == Outcome("Loop", "", Here, tb, <<>>, <<>>)

Pass(out) ==
  /\ Bind(out)
  /\ last' = [last EXCEPT !.res = out.res, !.err = out.err, !.ta = out.ta,
                          !.hits = out.hits, !.vals = out.vals]
  /\ UNCHANGED has_variadic

count_enter(o, step) ==
  /\ Running
  /\ ~InLoop
  /\ \E out \in { IF Mode = "bind" THEN Enter(0) ELSE Skip(0) } :
         /\ Bind(out)
         /\ last' = Call("count", o, <<>>, FALSE, step, Mode, 0, out)
  /\ UNCHANGED has_variadic

count_pass ==
  /\ InLoop
  /\ last.op = "count"
  /\ \E out \in { count_step(args, Here, [short |-> last.short, long |-> last.long],
                             last.ta, last.step, last.hits) } :
         Pass(out)

list_enter(o, required) ==
  /\ Running
  /\ ~InLoop
  /\ \E out \in { IF Mode = "bind" THEN Enter(<<Default>>) ELSE Skip(<<Default>>) } :
         /\ Bind(out)
         /\ last' = Call("list", o, <<>>, required, 0, Mode, <<Default>>, out)
  /\ UNCHANGED has_variadic

list_pass ==
  /\ InLoop
  /\ last.op = "list"
  /\ \E out \in { list_step(args, Here, [short |-> last.short, long |-> last.long],
                            last.ta, last.flagv, last.hits, last.vals) } :
         Pass(out)

Next ==
  \/ \E o \in Opts, required \in BOOLEAN : arg(o, required)
  \/ \E o \in Opts \cup {HelpOpt}, invert \in BOOLEAN : flag(o, invert)
  \/ \E o \in Opts, step \in Steps : count(o, step)
  \/ \E o \in Opts, required \in BOOLEAN : list(o, required)
  \/ \E required \in BOOLEAN : positional(required)
  \/ \E required \in BOOLEAN : positional_list(required)
  \/ \E name \in SubNames : subcommand(name)
  \/ group("g")
  \/ done
  \/ unused

\* the calls that bind values: no subcommand, group or done
NextBind ==
  \/ \E o \in Opts, required \in BOOLEAN : arg(o, required)
  \/ \E o \in Opts \cup {HelpOpt}, invert \in BOOLEAN : flag(o, invert)
  \/ \E o \in Opts, step \in Steps : count(o, step)
  \/ \E o \in Opts, required \in BOOLEAN : list(o, required)
  \/ \E required \in BOOLEAN : positional(required)
  \/ \E required \in BOOLEAN : positional_list(required)

\* the option declarations (every flag but the help flag), which do the same
\* to the twin as the code does in help mode, and the subcommands; no
\* positional, which the documentation wants declared after every subcommand
NextHelp ==
  \/ \E o \in Opts, required \in BOOLEAN : arg(o, required)
  \/ \E o \in Opts, invert \in BOOLEAN : flag(o, invert)
  \/ \E o \in Opts, step \in Steps : count(o, step)
  \/ \E o \in Opts, required \in BOOLEAN : list(o, required)
  \/ \E name \in SubNames : subcommand(name)
  \/ done

\* the binding calls and the report of what they left
NextUnused ==
  \/ NextBind
  \/ unused

Init == from_strings(InputsOf(Vocabulary, MaxArgs)) /\ nested = FALSE /\ twin = TwinOff
InitCount == from_strings(InputsOf(CountVocabulary, MaxArgs)) /\ nested = FALSE /\ twin = TwinOff
InitValue == from_strings(InputsOf(ValueVocabulary, MaxArgs)) /\ nested = FALSE /\ twin = TwinOff
InitPos == from_strings(InputsOf(PosVocabulary, MaxPosArgs)) /\ nested = FALSE /\ twin = TwinOff
InitRun == from_strings(InputsOf(RunVocabulary, MaxRunArgs)) /\ nested = FALSE /\ twin = TwinOff
InitUnused == from_strings(InputsOf(UnusedVocabulary, MaxArgs)) /\ nested = FALSE /\ twin = TwinOff
InitLong == from_strings(InputsOf(LongVocabulary, MaxArgs)) /\ nested = FALSE /\ twin = TwinOff
InitScope == from_strings(InputsOf(ScopeVocabulary, MaxArgs)) /\ nested = TRUE /\ twin = TwinOff
InitHelp ==
  /\ from_strings(InputsOf(HelpVocabulary, MaxArgs))
  /\ nested = FALSE
  /\ twin = twin_from_strings(args)

\* the calls of count and list, pass by pass
NextLoop ==
  \/ \E o \in Opts, step \in Steps : count_enter(o, step)
  \/ count_pass
  \/ \E o \in Opts, required \in BOOLEAN : list_enter(o, required)
  \/ list_pass

InitLoop == from_strings(InputsOf(LoopVocabulary, MaxArgs)) /\ nested = FALSE /\ twin = TwinOff

\* count and list pass by pass; a call that is inside its loop runs on
SpecLoop ==
  /\ InitLoop
  /\ [][NextLoop]_vars
  /\ WF_vars(count_pass)
  /\ WF_vars(list_pass)

\* the calls that walk the declaration tree
NextWalk ==
  \/ \E name \in SubNames : subcommand(name)
  \/ group("g")
  \/ done

InitWalk == from_strings(InputsOf(ScopeVocabulary, MaxArgs)) /\ nested = FALSE /\ twin = TwinOff

\* the walk of the declaration tree alone, on inputs of subcommand names: no
\* call but subcommand takes a position out of the mask
SpecWalk == InitWalk /\ [][NextWalk]_vars

\* every call, on the inputs over Vocabulary
Spec == Init /\ [][Next]_vars
\* the binding calls, on inputs of counter tokens
SpecCount == InitCount /\ [][NextBind]_vars
\* the binding calls, on inputs of value-taking option tokens
SpecValue == InitValue /\ [][NextBind]_vars
\* the binding calls, on inputs of positional tokens and the argstop
SpecPos == InitPos /\ [][NextBind]_vars
\* the binding calls, on inputs of short-code runs that hold a valued short code
SpecRun == InitRun /\ [][NextBind]_vars
\* the declarations, and the same declarations on a twin parser that was
\* given the help flag as well
SpecHelp == InitHelp /\ [][NextHelp]_vars
\* every call, the caller's open declarations followed, on inputs of
\* subcommand names
SpecScope == InitScope /\ [][Next]_vars
\* the binding calls and unused(), on inputs of long-name tokens
SpecLong == InitLong /\ [][NextUnused]_vars
\* the binding calls and unused(), on inputs with clusters and an argstop
SpecUnused == InitUnused /\ [][NextUnused]_vars

(***************************************************************************)
(* Vocabulary of the properties.                                           *)
(***************************************************************************)
\* the positions of a sequence of positions
Range(q) == { q[k] : k \in 1..Len(q) }

\* the token at position i
Token(i) == args[i + 1]

\* a call that ran its binding code (live, not schema-only, not refused)
Bound(op) == last.op = op /\ last.mode = "bind"

\* what matches_short hands to handle_run when it meets the token first: one
\* dash, then at least two characters, the second of which is not '='
RunLike(t) == Len(t) > 2 /\ t[1] = "-" /\ t[2] # "-" /\ t[3] # "="

\* a cluster: one leading dash, three or more characters, no '='
IsCluster(t) ==
  /\ Len(t) >= 3
  /\ t[1] = "-"
  /\ t[2] # "-"
  /\ \A k \in 1..Len(t) : t[k] # "="

\* the token is exactly -c or exactly --n
IsExact(t, c, n) ==
  \/ c # NUL /\ t = <<"-", c>>
  \/ n # <<>> /\ t = <<"-", "-">> \o n

\* the token is -c=... or --n=...
IsEqualsForm(t, c, n) ==
  \/ c # NUL /\ Len(t) >= 3 /\ SubSeq(t, 1, 3) = <<"-", c, "=">>
  \/ n # <<>> /\ Len(t) >= Len(n) + 3
              /\ SubSeq(t, 1, Len(n) + 3) = <<"-", "-">> \o n \o <<"=">>

\* the offsets (past the dash) at which the token holds c
Occ(t, c) == { i \in 1..(Len(t) - 1) : t[i + 1] = c }

\* the offsets of position i that were open before the last call
OpenBefore(i) ==
  IF i \in DOMAIN last.pruns THEN last.pruns[i] ELSE 1..(Len(Token(i)) - 1)

\* the offsets of position i that are open now
OpenNow(i) ==
  IF i \in DOMAIN run_masks THEN run_masks[i] ELSE 1..(Len(Token(i)) - 1)

\* the sum of f over S
RECURSIVE Sum(_, _)
Sum(f, S) == IF S = {} THEN 0 ELSE LET x == CHOOSE y \in S : TRUE
                                   IN  f[x] + Sum(f, S \ {x})

\* the last call was the first call on the parser from_strings built
FirstCall ==
  /\ last.op # "from_strings"
  /\ last.pmask = InitialMask(args)
  /\ last.pruns = <<>>

(***************************************************************************)
(* Properties.                                                             *)
(***************************************************************************)
\* C1: the consumption mask only shrinks.  After every call the mask is a
\* subset of the mask before the call, so a position once removed is never
\* re-added, and the mask is always a subset of the mask from_strings built.
C1_MaskOnlyShrinks ==
  /\ mask \subseteq last.pmask
  /\ mask \subseteq InitialMask(args)

\* a list call and a subcommand call have both claimed positions
C1_Witness ==
  /\ last.op = "list" /\ mask # last.pmask
  /\ subcmds # <<>>
  /\ Cardinality(InitialMask(args) \ mask) >= 2

\* C2: every token a binding call takes as its match is in the mask when the
\* call takes it, and every token arg or list consumes as an option's value
\* is in the mask when it is taken, so no position is used by two bindings.
C2_TakenFromTheMask ==
  /\ Range(last.hits) \subseteq last.pmask
  /\ last.op \in {"arg", "list"} =>
       \A k \in 1..Len(last.vals) :
         last.vals[k] # -1 =>
           /\ last.vals[k] \in last.pmask
           /\ \A j \in 1..(k - 1) : last.vals[j] # last.vals[k]

\* C3: no token after the first "--" is matched as an option, as a
\* subcommand or as a single positional, or read as an option's value: only
\* positional_list reads such tokens.
C3_NothingAfterArgstop ==
  (ArgStop(args) # -1 /\ last.op # "positional_list") =>
    /\ \A p \in Range(last.hits) : p < ArgStop(args)
    /\ \A p \in Range(last.vals) : p <= ArgStop(args)

\* a counter on v ran against an input whose only -v follows the "--"
C3_Witness ==
  /\ Bound("count") /\ last.short = "v"
  /\ ArgStop(args) = 1
  /\ Len(args) = 3 /\ Token(2) = <<"-", "v">>
  /\ last.ta = 0

C5_CountExactTokens_AsStated ==
  (Bound("count") /\ \A i \in last.pmask : ~RunLike(Token(i))) =>
    LET exact == { i \in last.pmask : IsExact(Token(i), last.short, last.long) }
    IN  /\ last.ta = last.tb + last.step * Cardinality(exact)
        /\ mask = last.pmask \ exact
        /\ Range(last.hits) = exact

\* C5, amended: the same, provided no unclaimed token is an equals form
\* (-c=... or --n=...) of the counter.
C5_CountExactTokens ==
  (/\ Bound("count")
   /\ \A i \in last.pmask : ~RunLike(Token(i))
   /\ \A i \in last.pmask : ~IsEqualsForm(Token(i), last.short, last.long)) =>
    LET exact == { i \in last.pmask : IsExact(Token(i), last.short, last.long) }
    IN  /\ last.res = "Ok"
        /\ last.ta = last.tb + last.step * Cardinality(exact)
        /\ mask = last.pmask \ exact
        /\ Range(last.hits) = exact

\* a counter with step 3 counted a --verbose and a -v
C5_Witness ==
  /\ Bound("count") /\ last.step = 3
  /\ Len(args) = 3
  /\ Token(1) = <<"-", "-">> \o L_verbose /\ Token(2) = <<"-", "v">>
  /\ last.pmask = {1, 2}
  /\ last.ta = 6 /\ mask = {}

\* C6: when the unclaimed tokens are clusters, count on c adds the step once
\* per open occurrence of c in every unclaimed cluster and closes exactly
\* those offsets; the other offsets stay open, so a counter on another
\* character receives its own occurrences whichever counter is declared
\* first.  A cluster stays in the mask exactly while it has an open offset.
C6_CountClusters ==
  (Bound("count") /\ \A i \in last.pmask : IsCluster(Token(i))) =>
    LET took == [i \in last.pmask |->
                   Cardinality(OpenBefore(i) \cap Occ(Token(i), last.short))]
    IN  /\ last.res = "Ok"
        /\ last.ta = last.tb + last.step * Sum(took, last.pmask)
        /\ \A i \in last.pmask :
             /\ OpenNow(i) = OpenBefore(i) \ Occ(Token(i), last.short)
             /\ i \in mask <=> OpenNow(i) # {}

\* a counter on v took its three occurrences from two clusters a counter on
\* x had gone through before
C6_Witness ==
  /\ Bound("count") /\ last.short = "v" /\ last.step = 3
  /\ Len(args) = 3
  /\ Token(1) = <<"-", "v", "x">> /\ Token(2) = <<"-", "x", "v", "v">>
  /\ last.pmask = {1, 2}
  /\ last.pruns = (1 :> {1}) @@ (2 :> {2, 3})
  /\ last.ta = 9 /\ mask = {}

\* C7: a flag matched on a character of a cluster claims only that
\* character: while the token has other open characters it stays in the
\* mask, so they remain matchable by the calls declared after the flag.
C7_FlagClaimsOnlyItsCharacter ==
  (/\ Bound("flag")
   /\ last.res = "Ok"
   /\ last.hits # <<>>
   /\ IsCluster(Token(last.hits[1]))) =>
    LET i == last.hits[1]
    IN  /\ last.ta = ~last.flagv
        /\ OpenNow(i) # {} => i \in mask

\* position i holds the option of the last call in some form: exactly,
\* with '=', or as a character of a token handled as a run
HoldsOption(i) ==
  \/ IsExact(Token(i), last.short, last.long)
  \/ IsEqualsForm(Token(i), last.short, last.long)
  \/ RunLike(Token(i)) /\ Occ(Token(i), last.short) # {}

\* C8: for a value-taking short option (arg or list) whose character occurs
\* in an unclaimed cluster, the only unclaimed token that holds the option:
\* if the character does not end the cluster the call fails with
\* ValuedArgInRun and binds nothing; if it ends the cluster and the next
\* token is unclaimed the call succeeds, binds the text of the next token
\* and claims it.
C8_ValuedShortInCluster ==
  \A i \in last.pmask :
    (/\ Bound("arg") \/ Bound("list")
     /\ IsCluster(Token(i))
     /\ Occ(Token(i), last.short) \cap OpenBefore(i) # {}
     /\ \A j \in last.pmask \ {i} : ~HoldsOption(j)) =>
      /\ ~EndsWith(Token(i), last.short) =>
           /\ last.res = "Err" /\ last.err = "ValuedArgInRun"
           /\ last.ta = last.tb
      /\ (EndsWith(Token(i), last.short) /\ i + 1 \in last.pmask) =>
           /\ last.res = "Ok"
           /\ last.ta = IF last.op = "arg" THEN Token(i + 1)
                        ELSE Append(last.tb, Token(i + 1))
           /\ i + 1 \notin mask

\* the text after the first '=' of a token
AfterEquals(t) ==
  LET k == Min({ j \in 1..Len(t) : t[j] = "=" }) IN SubSeq(t, k + 1, Len(t))

\* the input is the option of the last call and a value, in one of the forms
\* --n=v, -c=v (one token) or --n v, -c v (two tokens)
OptionAndValue ==
  \/ Len(args) = 2 /\ IsEqualsForm(Token(1), last.short, last.long)
  \/ Len(args) = 3 /\ IsExact(Token(1), last.short, last.long)

\* the value v of such an input
ValueGiven == IF Len(args) = 2 THEN AfterEquals(Token(1)) ELSE Token(2)

\* C9, as stated: for any declaration arg(c, n) and any value v, the inputs
\* --n=v, --n v, -c=v and -c v all bind v and leave no token unclaimed.
C9_SameValueInEveryForm_AsStated ==
  (Bound("arg") /\ FirstCall /\ OptionAndValue) =>
    /\ last.res = "Ok"
    /\ last.ta = ValueGiven
    /\ mask = {}

\* C9, amended: the same for any value v other than the argstop "--" (and
\* other than a token the implicit help flag matches, which puts the parser
\* in help mode: the call is then not a binding one).
C9_SameValueInEveryForm ==
  (Bound("arg") /\ FirstCall /\ OptionAndValue /\ ValueGiven # T_stop) =>
    /\ last.res = "Ok"
    /\ last.ta = ValueGiven
    /\ mask = {}

\* arg bound the b of --file=b
C9_Witness ==
  /\ Bound("arg") /\ FirstCall
  /\ Len(args) = 2
  /\ Token(1) = <<"-", "-">> \o L_file \o <<"=", "b">>
  /\ last.ta = <<"b">> /\ mask = {}

\* C10: a live list call appends one value for every unclaimed occurrence of
\* its option written -c v, --n v, -c=v or --n=v (an occurrence read as the
\* value of an earlier one aside), in ascending order of the position of the
\* option token; after the call no token of the option remains in the mask.
C10_ListCollectsEveryOccurrence ==
  LET written == { i \in last.pmask :
                     \/ IsExact(Token(i), last.short, last.long)
                     \/ IsEqualsForm(Token(i), last.short, last.long) }
      own == written \ Range(last.vals)
      valueOf(i) == IF IsExact(Token(i), last.short, last.long)
                    THEN Token(i + 1) ELSE AfterEquals(Token(i))
  IN  (/\ Bound("list")
       /\ \A i \in written :
            IsExact(Token(i), last.short, last.long) => i + 1 \in last.pmask
       /\ \A i \in last.pmask :
            RunLike(Token(i)) => Occ(Token(i), last.short) = {}) =>
        /\ last.hits = Ascending(own)
        /\ last.ta = last.tb \o [k \in 1..Len(last.hits) |-> valueOf(last.hits[k])]
        /\ mask \cap written = {}

\* the subcommand declarations the caller has open, outermost first
SubFrames == SelectSeq(scope, LAMBDA f : f.kind = "sub")

\* some subcommand the caller has open was not matched
InUnmatched == \E k \in DOMAIN scope : scope[k].kind = "sub" /\ ~scope[k].hit

\* the calls that bind a target
Bindings == {"arg", "flag", "count", "list", "positional", "positional_list"}

\* C11: the subcommand names pushed to the target form one root-to-leaf
\* chain of the declared tree.  When a subcommand call of a well nested
\* declaration sequence commits, the names pushed so far are, in order, the
\* names of the subcommand declarations open at that point (the k-th pushed
\* name is declared at depth k, inside the declaration of the (k-1)-th), and
\* each of those declarations matched.
C11_CommitsFormOneChain ==
  (nested /\ last.op = "subcommand" /\ last.hits # <<>>) =>
    /\ Len(subcmds) = Len(SubFrames)
    /\ \A k \in DOMAIN SubFrames :
         SubFrames[k].name = subcmds[k] /\ SubFrames[k].hit

\* C12: a binding declared inside an unmatched subcommand claims no token
\* and leaves its target as it was, in every declaration sequence in which
\* each subcommand and each group is closed by its own done().
C12_UnmatchedSubcommandIsolated ==
  (nested /\ last.op \in Bindings /\ InUnmatched) =>
    /\ mask = last.pmask
    /\ run_masks = last.pruns
    /\ last.ta = last.tb

\* C13: a done() that closes a subcommand scope while walk_depth ==
\* commit_depth == max_depth sets parse_done, and once parse_done is set every
\* arg, flag, count, list, positional, positional_list and subcommand call
\* returns success and changes neither the mask, the run states,
\* commit_depth, has_variadic nor its target.
C13_ParseDoneEndsBinding ==
  [][ /\ (/\ last'.op = "done"
          /\ curr_group = "None" /\ walk_depth > 0
          /\ walk_depth = commit_depth /\ commit_depth = max_depth)
           => parse_done'
      /\ (parse_done /\ last'.op \in Bindings \cup {"subcommand"}) =>
           /\ last'.res = "Ok"
           /\ UNCHANGED <<mask, run_masks, commit_depth, has_variadic, subcmds>>
           /\ last'.ta = last'.tb ]_vars

\* after "run" was matched and closed, a flag on v left the token -v alone
C13_Witness ==
  /\ parse_done
  /\ last.op = "flag" /\ last.short = "v"
  /\ subcmds = << T_run >>
  /\ \E i \in mask : Token(i) = <<"-", "v">>

\* C14: a group call followed by its closing done() returns success and
\* leaves walk_depth, commit_depth, max_depth and parse_done unchanged in
\* every parser state, inside an unmatched subcommand and after parse_done
\* included: the done() that closes a group never closes a subcommand scope.
C14_GroupKeepsDepths ==
  [][ /\ (nested /\ ~InGroup /\ last'.op = "group") =>
           /\ last'.res = "Ok"
           /\ UNCHANGED <<walk_depth, commit_depth, max_depth, parse_done>>
      /\ (nested /\ InGroup /\ last'.op = "done") =>
           /\ last'.res = "Ok"
           /\ UNCHANGED <<walk_depth, commit_depth, max_depth, parse_done>> ]_vars

\* C15: in every reachable state commit_depth <= max_depth, and parse_done
\* is monotonic: once true, no later call resets it.
C15_DepthOrderAndLatch ==
  /\ [](commit_depth <= max_depth)
  /\ [][parse_done => parse_done']_vars

\* a subcommand was committed and closed, and calls went on after that
C15_Witness ==
  /\ parse_done
  /\ commit_depth = 1 /\ max_depth = 1
  /\ last.op = "subcommand" /\ walk_depth = 1

\* C16: done() called with no group open and walk_depth 0 returns an
\* InvalidState error and leaves walk_depth, commit_depth, max_depth,
\* parse_done and the mask unchanged.
C16_DoneAtTopLevel ==
  [][ (last'.op = "done" /\ curr_group = "None" /\ walk_depth = 0) =>
        /\ last'.res = "Err" /\ last'.err = "InvalidState"
        /\ UNCHANGED <<walk_depth, commit_depth, max_depth, parse_done, mask>> ]_vars

\* done() was refused at the top level with a token still unclaimed
C16_Witness ==
  /\ last.op = "done" /\ last.err = "InvalidState"
  /\ walk_depth = 0 /\ curr_group = "None"
  /\ mask # {}

\* C17: a live positional call in binding mode binds the text of the lowest
\* position still in the mask and claims exactly that position, so
\* successive positionals receive the unclaimed tokens in input order; with
\* an empty mask it returns MissingPositional if required and success
\* otherwise, and leaves the target unchanged.
C17_PositionalTakesLowest ==
  Bound("positional") =>
    /\ run_masks = last.pruns
    /\ IF last.pmask = {}
       THEN /\ last.res = (IF last.flagv THEN "Err" ELSE "Ok")
            /\ last.flagv => last.err = "MissingPositional"
            /\ last.ta = last.tb
            /\ mask = {}
       ELSE /\ last.res = "Ok"
            /\ last.ta = Token(Min(last.pmask))
            /\ mask = last.pmask \ {Min(last.pmask)}

\* the second positional of three tokens received the second token
C17_Witness ==
  /\ Bound("positional")
  /\ Len(args) = 4
  /\ last.pmask = {2, 3}
  /\ last.ta = Token(2) /\ Token(2) # Token(1) /\ Token(2) # Token(3)
  /\ mask = {3}

\* the call being made is live: its scope is not ignored
Live == ~should_ignore(FALSE, walk_depth)

\* C18: after one live positional_list call, every later live
\* positional_list call returns MultipleVariadic and every later live
\* positional call returns UnorderedPositionals, for the rest of the parse
\* (the variadic flag is never cleared), and these failing calls change
\* neither the mask nor a target.
C18_VariadicIsLast ==
  [][ /\ (Live /\ last'.op = "positional_list") => has_variadic'
      /\ has_variadic => has_variadic'
      /\ (has_variadic /\ Live /\ last'.op \in {"positional", "positional_list"}) =>
           /\ last'.res = "Err"
           /\ last'.err = (IF last'.op = "positional" THEN "UnorderedPositionals"
                           ELSE "MultipleVariadic")
           /\ UNCHANGED <<mask, run_masks>>
           /\ last'.ta = last'.tb ]_vars

\* a positional after the positional_list was refused, and a token it could
\* have taken is still in the mask
C18_Witness ==
  /\ last.op = "positional" /\ last.err = "UnorderedPositionals"
  /\ has_variadic
  /\ \E i \in mask : Token(i) = <<"a">>

\* what a token looks like by its leading characters
LooksLike(t) ==
  IF Len(t) >= 2 /\ t[1] = "-" /\ t[2] = "-" THEN "LongArg"
  ELSE IF Len(t) >= 1 /\ t[1] = "-" THEN "ShortArg"
  ELSE "Positional"

\* the positions still in the mask that have no run state, ascending
WholeLeft == Ascending(mask \ DOMAIN run_masks)

\* C19: unused() returns, in ascending order of position, exactly one entry
\* for every position still in the mask that has no run state, with the
\* full text of the token, classified LongArg when it starts with "--",
\* ShortArg when it starts with one "-" and Positional otherwise; a claimed
\* token has no entry.
C19_UnusedListsWholeTokens ==
  last.op = "unused" =>
    /\ last.res = "Ok"
    /\ SelectSeq(last.ta, LAMBDA e : e.at \notin DOMAIN run_masks) =
         [k \in 1..Len(WholeLeft) |->
            [arg |-> Token(WholeLeft[k]), at |-> WholeLeft[k],
             looks_like |-> LooksLike(Token(WholeLeft[k]))]]

\* C20: every input token other than the program name that no binding
\* matched or consumed has exactly one entry in the report of unused(),
\* classified by its leading characters, the tokens after a "--" included
\* when no positional_list was declared.  Stated for a report asked for
\* before any binding claimed anything, the "--" itself aside.
C20_EveryUnmatchedTokenReported ==
  (last.op = "unused" /\ FirstCall /\ ~has_variadic) =>
    /\ last.res = "Ok"
    /\ \A i \in (1..(Len(args) - 1)) \ {ArgStop(args)} :
         /\ Cardinality({ k \in DOMAIN last.ta : last.ta[k].at = i }) = 1
         /\ \A k \in DOMAIN last.ta :
              last.ta[k].at = i =>
                /\ last.ta[k].arg = Token(i)
                /\ last.ta[k].looks_like = LooksLike(Token(i))

\* the entries of the last report that are about position i, in order
EntriesAt(i) == SelectSeq(last.ta, LAMBDA e : e.at = i)

\* C21: for a cluster token whose run state still has open offsets,
\* unused() returns exactly one entry per open offset, each "-" followed by
\* the character the token holds at that offset and classified ShortArg,
\* and the call never fails.
C21_UnusedListsOpenOffsets ==
  last.op = "unused" =>
    /\ last.res = "Ok"
    /\ \A i \in mask \cap DOMAIN run_masks :
         LET open == Ascending(run_masks[i])
         IN  EntriesAt(i) =
               [k \in 1..Len(open) |->
                  [arg |-> <<"-", CharAt(Token(i), open[k])>>, at |-> i,
                   looks_like |-> "ShortArg"]]

\* C22: fail fast.  Once a binding call on a parser has returned an error,
\* every later binding call on that parser does no work: it claims no token
\* and changes no target.  Stated for the binding call that comes next
\* after the failing one.
C22_FailFast ==
  [][ (last.op \in Bindings /\ last.res = "Err" /\ last'.op \in Bindings) =>
        /\ UNCHANGED <<mask, run_masks>>
        /\ last'.ta = last'.tb ]_vars

\* the unclaimed positions, before the last call, of the tokens that are
\* exactly the option of the call
ExactBefore == { i \in last.pmask : IsExact(Token(i), last.short, last.long) }

\* the unclaimed positions, before the last call, of the tokens that give the
\* option of the call in another form: with an equals-suffix, or as an open
\* character of a cluster
OtherFormBefore ==
  { i \in last.pmask :
      \/ IsEqualsForm(Token(i), last.short, last.long)
      \/ RunLike(Token(i)) /\ Occ(Token(i), last.short) \cap OpenBefore(i) # {} }

\* C23, as stated: a live flag call sets its target to !invert when an
\* unclaimed token exactly -c or exactly --n exists, and claims the leftmost
\* such token; when no token matches it leaves the target and the mask
\* unchanged, and succeeds: flags are never required.
C23_FlagExactToken_AsStated ==
  Bound("flag") =>
    /\ ExactBefore # {} =>
         /\ last.res = "Ok"
         /\ last.ta = ~last.flagv
         /\ mask = last.pmask \ {Min(ExactBefore)}
    /\ (ExactBefore = {} /\ OtherFormBefore = {}) =>
         /\ last.res = "Ok"
         /\ last.ta = last.tb
         /\ mask = last.pmask /\ run_masks = last.pruns

\* C23, amended: the same, provided no unclaimed token to the left of the
\* leftmost exact one gives the flag with an equals-suffix or as an open
\* character of a cluster.
C23_FlagExactToken ==
  Bound("flag") =>
    /\ (/\ ExactBefore # {}
        /\ \A i \in OtherFormBefore : i > Min(ExactBefore)) =>
         /\ last.res = "Ok"
         /\ last.ta = ~last.flagv
         /\ mask = last.pmask \ {Min(ExactBefore)}
         /\ run_masks = last.pruns
    /\ (ExactBefore = {} /\ OtherFormBefore = {}) =>
         /\ last.res = "Ok"
         /\ last.ta = last.tb
         /\ mask = last.pmask /\ run_masks = last.pruns

\* an inverted flag took the first of --verbose and -v and became false
C23_Witness ==
  /\ Bound("flag") /\ last.flagv
  /\ Len(args) = 3
  /\ Token(1) = <<"-", "-">> \o L_verbose /\ Token(2) = <<"-", "v">>
  /\ last.pmask = {1, 2}
  /\ last.ta = FALSE /\ mask = {2}

\* C24: when the leftmost unclaimed token that matches a flag or a counter
\* carries an equals-suffix (-c=... or --n=...), the flag or count call
\* returns InvalidInput and neither sets nor increments its target; the
\* suffix is detected although the declaration expects no value.
C24_ValueGivenToFlagOrCounter ==
  ((Bound("flag") \/ Bound("count"))
     /\ ExactBefore \cup OtherFormBefore # {}
     /\ IsEqualsForm(Token(Min(ExactBefore \cup OtherFormBefore)),
                     last.short, last.long)) =>
    /\ last.res = "Err" /\ last.err = "InvalidInput"
    /\ last.ta = last.tb

\* a counter met --file=b before -f and was refused
C24_Witness ==
  /\ Bound("count") /\ last.short = "f"
  /\ Len(args) = 3
  /\ Token(1) = <<"-", "-">> \o L_file \o <<"=", "b">> /\ Token(2) = <<"-", "f">>
  /\ last.pmask = {1, 2}
  /\ last.err = "InvalidInput" /\ last.ta = 0

\* C25: whenever a value-taking option (arg or list) is matched as an exact
\* -c or --n token or as the last character of a cluster, with no
\* equals-suffix, and the following position is absent from the input or not
\* in the mask, the call returns MissingArgValue, binds nothing and does not
\* abort the program.  Stated for the first match of the call.
C25_NoValueToTake ==
  ((Bound("arg") \/ Bound("list")) /\ last.hits # <<>>) =>
    LET i == last.hits[1]
    IN  (/\ \/ IsExact(Token(i), last.short, last.long)
            \/ IsCluster(Token(i)) /\ EndsWith(Token(i), last.short)
         /\ i + 1 \notin last.pmask) =>
          /\ last.res = "Err" /\ last.err = "MissingArgValue"
          /\ last.ta = last.tb

\* C26: in binding mode a live required arg with no matching token returns
\* MissingArgument, a live required list with no match returns
\* MissingArgument, and a live required positional_list that collects
\* nothing returns MissingPositional; with required = false the same calls
\* return success, and the target is left unchanged.
C26_RequiredButAbsent ==
  LET absent == IF last.op = "positional_list"
                THEN last.pmask = {} /\ AfterStop(args) = <<>>
                ELSE ExactBefore \cup OtherFormBefore = {}
      missing == IF last.op = "positional_list" THEN "MissingPositional"
                 ELSE "MissingArgument"
  IN  ((Bound("arg") \/ Bound("list") \/ Bound("positional_list")) /\ absent) =>
        /\ last.res = (IF last.flagv THEN "Err" ELSE "Ok")
        /\ last.flagv => last.err = missing
        /\ last.ta = last.tb

\* C27: in help mode every arg, count, list, positional and positional_list
\* call, and every flag call other than the help flag, leaves the mask, the
\* run states and its target unchanged and never returns MissingArgument,
\* MissingArgValue or MissingPositional, required or not.
C27_HelpModeBindsNothing ==
  (/\ help
   /\ last.op \in Bindings
   /\ ~(last.op = "flag" /\ is_help_flags([short |-> last.short, long |-> last.long]))) =>
    /\ mask = last.pmask
    /\ run_masks = last.pruns
    /\ last.ta = last.tb
    /\ last.err \notin {"MissingArgument", "MissingArgValue", "MissingPositional"}

\* with -h given, a required arg on f succeeded and left the -f with no
\* value in the mask
C27_Witness ==
  /\ help
  /\ last.op = "arg" /\ last.short = "f" /\ last.flagv
  /\ last.mode = "help" /\ last.res = "Ok"
  /\ Len(args) = 3
  /\ Token(1) = <<"-", "h">> /\ Token(2) = <<"-", "f">>
  /\ mask = {2}

\* C28: scope resolution is the same in help mode and in binding mode: for
\* the same declarations and the same tokens, adding a help flag token to
\* the input does not change which subcommands are committed (the same
\* commit_depth and the same committed path).
C28_SameScopesInHelpMode ==
  twin.on =>
    /\ twin.commit_depth = commit_depth
    /\ twin.subcmds = subcmds

\* C29: a token matched by a live subcommand declaration is claimed: after
\* the match its position is not in the mask, so no later positional takes
\* it, no later positional_list collects it and unused() does not list it.
\* The position leaves the mask at the match, no position ever enters the
\* mask again, and positional, positional_list and unused() take their
\* positions from the mask.
C29_SubcommandTokenClaimed ==
  [][ /\ (last'.op = "subcommand" /\ last'.hits # <<>>) =>
           /\ last'.hits[1] \in mask
           /\ last'.hits[1] \notin mask'
      /\ mask' \subseteq mask
      /\ last'.op \in {"positional", "positional_list"} =>
           Range(last'.hits) \subseteq mask
      /\ (last'.op = "unused" /\ last'.res = "Ok") =>
           \A k \in DOMAIN last'.ta : last'.ta[k].at \in mask ]_vars

\* "run" was matched at position 1, and the positional declared inside it
\* received the token after it
C29_Witness ==
  /\ Bound("positional")
  /\ Len(args) = 3
  /\ Token(1) = T_run /\ Token(2) = <<"a">>
  /\ subcmds = << T_run >>
  /\ last.pmask = {2} /\ last.ta = <<"a">> /\ mask = {}

\* C30, as stated: on a successful subcommand match the parser claims
\* nothing: the matched token stays in the mask, and the only state changed
\* is commit_depth and max_depth.
C30_SubcommandMatch_AsStated ==
  [][ (last'.op = "subcommand" /\ last'.hits # <<>>) =>
        /\ UNCHANGED <<mask, run_masks>>
        /\ commit_depth' = commit_depth + 1
        /\ max_depth' = Max(commit_depth + 1, max_depth) ]_vars

\* C30, amended: on a successful subcommand match the parser claims the
\* matched token and nothing else: its position leaves the mask, its text is
\* pushed to the target, walk_depth and commit_depth go up by one and
\* max_depth follows commit_depth; nothing else changes.
C30_SubcommandMatch ==
  [][ (last'.op = "subcommand" /\ last'.hits # <<>>) =>
        /\ Token(last'.hits[1]) = last'.name
        /\ mask' = mask \ {last'.hits[1]}
        /\ subcmds' = Append(subcmds, last'.name)
        /\ walk_depth' = walk_depth + 1
        /\ commit_depth' = commit_depth + 1
        /\ max_depth' = (IF commit_depth + 1 >= max_depth THEN commit_depth + 1
                         ELSE max_depth)
        /\ UNCHANGED <<args, run_masks, parse_done, curr_group, help, has_variadic>> ]_vars

\* "run" was matched with another token left: the mask lost its position only
C30_Witness ==
  /\ last.op = "subcommand" /\ last.hits = <<2>>
  /\ Len(args) = 3
  /\ Token(1) = <<"-", "v">> /\ Token(2) = T_run
  /\ subcmds = << T_run >> /\ commit_depth = 1 /\ max_depth = 1
  /\ mask = {1}

\* C31: leftmost first fit.  An arg or flag call binds to the lowest
\* unclaimed position whose token matches its short or its long form and
\* claims only that occurrence (and, for an arg, the token it takes as the
\* value): every further occurrence stays in the mask, from which unused()
\* reports.  Stated for a lowest matching token the option can be bound from.
C31_LeftmostFirstFit ==
  LET forms == ExactBefore \cup OtherFormBefore
      h == Min(forms)
      others == last.pmask \ ({h} \cup Range(last.vals))
      \* the option can be bound from the token: not a flag with an
      \* equals-suffix, not an arg inside a cluster it does not end
      fits == IF last.op = "flag"
              THEN ~IsEqualsForm(Token(h), last.short, last.long)
              ELSE RunLike(Token(h)) => EndsWith(Token(h), last.short)
  IN  ((Bound("arg") \/ Bound("flag")) /\ forms # {} /\ fits) =>
        /\ last.hits = <<h>>
        /\ \A i \in others : i \in mask /\ OpenNow(i) = OpenBefore(i)
        /\ IF RunLike(Token(h))
           THEN /\ OpenNow(h) = OpenBefore(h) \ Occ(Token(h), last.short)
                /\ h \in mask <=> OpenNow(h) # {}
           ELSE h \notin mask

\* C32: the run states, in every reachable state.  A token has at most one
\* run state (they are keyed by position), which is never discarded or
\* created again; its open offsets lie in 1..len(token)-1 and only shrink;
\* and when a run state has no open offset left, the position of its token
\* is not in the mask.
C32_RunStates ==
  /\ [](\A i \in DOMAIN run_masks :
          /\ i \in 1..(Len(args) - 1)
          /\ run_masks[i] \subseteq 1..(Len(Token(i)) - 1)
          /\ run_masks[i] = {} => i \notin mask)
  /\ [][\A i \in DOMAIN run_masks :
          /\ i \in DOMAIN run_masks'
          /\ run_masks'[i] \subseteq run_masks[i]]_vars

\* the two characters of -vx were counted one after the other: the run
\* state is empty and the token has left the mask
C32_Witness ==
  /\ Bound("count") /\ last.short = "x"
  /\ Len(args) = 2
  /\ Token(1) = <<"-", "v", "x">>
  /\ DOMAIN last.pruns = {1} /\ last.pruns[1] = {2}
  /\ DOMAIN run_masks = {1} /\ run_masks[1] = {}
  /\ 1 \in last.pmask /\ 1 \notin mask

\* the token asks for help: -h, --help, or a cluster that holds h
IsHelpToken(t) ==
  \/ t = <<"-", HelpOpt.short>>
  \/ t = <<"-", "-">> \o HelpOpt.long
  \/ RunLike(t) /\ Occ(t, HelpOpt.short) # {}

\* C33: right after a parser is built from tokens none of which is a help
\* flag, the mask is exactly the positions from 1 up to, and without, the
\* position of the first "--" (the token count when there is none), there is
\* no run state, walk_depth, commit_depth and max_depth are 0 and parse_done
\* is false.
C33_FreshParser ==
  (last.op = "from_strings" /\ \A k \in 2..Len(args) : ~IsHelpToken(args[k])) =>
    LET stops == { i \in 1..(Len(args) - 1) : Token(i) = <<"-", "-">> }
    IN  /\ mask = { i \in 1..(Len(args) - 1) : \A j \in stops : i < j }
        /\ DOMAIN run_masks = {}
        /\ walk_depth = 0 /\ commit_depth = 0 /\ max_depth = 0
        /\ ~parse_done

\* a parser built from a cluster and the argstop
C33_Witness ==
  /\ last.op = "from_strings"
  /\ Len(args) = 3
  /\ Token(1) = <<"-", "v", "f">> /\ Token(2) = <<"-", "-">>
  /\ mask = {1}

\* C34: every subcommand call increments walk_depth by exactly one, live or
\* not; it is tested against the input, and can raise commit_depth, only
\* when parse_done is false and the incremented walk_depth equals
\* commit_depth + 1; a commit raises commit_depth by exactly one and sets
\* max_depth to the maximum of the two.
C34_SubcommandDepths ==
  [][ last'.op = "subcommand" =>
        /\ walk_depth' = walk_depth + 1
        /\ (parse_done \/ walk_depth + 1 # commit_depth + 1) =>
             /\ last'.hits = <<>>
             /\ UNCHANGED <<commit_depth, max_depth, mask, subcmds>>
        /\ \/ UNCHANGED <<commit_depth, max_depth>>
           \/ /\ commit_depth' = commit_depth + 1
              /\ max_depth' = (IF commit_depth' >= max_depth THEN commit_depth'
                               ELSE max_depth) ]_vars

\* "run" was declared a second time inside the committed "run": the call is
\* live at depth 2 and finds no token
C34_Witness ==
  /\ last.op = "subcommand" /\ last.name = T_run /\ last.mode = "bind"
  /\ walk_depth = 2 /\ commit_depth = 1 /\ max_depth = 1
  /\ subcmds = << T_run >>


\* the token t begins with the long name n and goes on with something other
\* than an equals sign
IsPrefixForm(t, n) ==
  /\ n # <<>>
  /\ Len(t) > 2 + Len(n)
  /\ SubSeq(t, 1, 2 + Len(n)) = <<"-", "-">> \o n
  /\ t[3 + Len(n)] # "="

\* C35: a call for the long name n matches a double-dash token only when the
\* token is exactly --n or begins with --n=; a token that merely begins with
\* --n is not matched by the call and stays in the mask (unless the call took it
\* as the value of the token before it), and an unused() call lists it, whole,
\* as a long argument.
C35_LongFormIsExact ==
  /\ (Bound("arg") \/ Bound("flag") \/ Bound("count") \/ Bound("list")) =>
       /\ \A k \in DOMAIN last.hits :
            SubSeq(Token(last.hits[k]), 1, 2) = <<"-", "-">> =>
              \/ Token(last.hits[k]) = <<"-", "-">> \o last.long
              \/ IsEqualsForm(Token(last.hits[k]), last.short, last.long)
       /\ \A i \in last.pmask :
            IsPrefixForm(Token(i), last.long) =>
              /\ i \notin Range(last.hits)
              /\ i \in mask \/ i \in Range(last.vals)
  /\ last.op = "unused" =>
       \A i \in mask :
         (\E o \in Opts : IsPrefixForm(Token(i), o.long)) =>
           \E k \in DOMAIN last.ta :
             last.ta[k] = [arg |-> Token(i), at |-> i, looks_like |-> "LongArg"]


\* C36: an arg or list call for the short code c returns ValuedArgInRun only
\* if some cluster token still in the mask holds c at an offset that is not
\* its last; clusters that do not hold c are passed over without an error.
C36_ValuedArgInRunOnlyInside ==
  ((Bound("arg") \/ Bound("list")) /\ last.res = "Err" /\ last.err = "ValuedArgInRun") =>
    \E i \in last.pmask :
      /\ RunLike(Token(i))
      /\ \E k \in Occ(Token(i), last.short) : k < Len(Token(i)) - 1


\* C37: a count or list call that has entered its loop leaves it, and every
\* pass of the loop that finds a match takes a position out of the mask or
\* closes an open offset of one run state, and puts nothing back.
C37_LoopsTerminate ==
  /\ InLoop ~> ~InLoop
  /\ [][ (InLoop /\ Len(last'.hits) > Len(last.hits)) =>
           /\ mask' \subseteq mask
           /\ \A i \in DOMAIN run_masks' : run_masks'[i] \subseteq OpenNow(i)
           /\ \/ mask' # mask
              \/ \E i \in DOMAIN run_masks' : run_masks'[i] # OpenNow(i) ]_vars

\* p -v -xvv: count('v') has matched the first token, then both v of the
\* cluster, and has returned with the x still open
C37_Witness ==
  /\ last.op = "count"
  /\ last.short = "v"
  /\ last.res = "Ok"
  /\ Len(args) = 3
  /\ Token(2) = <<"-", "x", "v", "v">>
  /\ last.hits = <<1, 2>>
  /\ last.ta = 3 * last.step
  /\ mask = {2}
  /\ DOMAIN run_masks = {2}
  /\ run_masks[2] = {1}


\* C38: on the walk of the declaration tree alone, where only subcommand takes
\* positions out of the mask, the token that a subcommand call matches lies
\* after every token matched before it (the tokens of its ancestors on the
\* committed path).
C38_PathInInputOrder ==
  (last.op = "subcommand" /\ last.hits # <<>>) =>
    \A j \in InitialMask(args) \ last.pmask : j < last.hits[1]


\* C39: whatever subcommand, group and done calls have been made, balanced or
\* not, while parse_done is false the walk is not below the committed depth:
\* walk_depth >= commit_depth; and a step that takes the walk below the
\* committed depth is a done() after which parse_done is set.
C39_WalkNotBelowCommit ==
  /\ [](~parse_done => walk_depth >= commit_depth)
  /\ [][ (walk_depth >= commit_depth /\ walk_depth' < commit_depth') =>
           /\ last'.op = "done"
           /\ parse_done' ]_vars

\* p run: subcommand("run") committed level 1 and the done() that closes it
\* took the walk back to 0 and set parse_done
C39_Witness ==
  /\ last.op = "done"
  /\ last.mode = "bind"
  /\ subcmds = << T_run >>
  /\ commit_depth = 1
  /\ walk_depth = 0
  /\ parse_done


\* C40: a binding call (arg, flag, count, list, positional, positional_list)
\* that returns an error leaves the caller's target as it was before the call.
C40_ErrorLeavesTarget ==
  (last.op \in {"arg", "flag", "count", "list", "positional", "positional_list"}
     /\ last.res = "Err") =>
    last.ta = last.tb

====
